---- MODULE Spec2Model ----
(***************************************************************************)
(* Aura Coach: the App shell (src/unnamed/part_000 lines 1-108) and the    *)
(* TrainingPage component (lines 110-424) as a state machine.              *)
(*                                                                         *)
(* One action is one run-to-completion step of the browser's event loop:   *)
(* a click handler together with the re-render and the effects it causes,  *)
(* or the continuation of an async function after one await.  React state  *)
(* written by a step is visible to the next step (a render is taken to     *)
(* happen before the next event is dispatched), so the `metrics` a handler *)
(* closes over is the record as it stands when the handler starts.         *)
(***************************************************************************)
EXTENDS Integers, Sequences, FiniteSets, TLC

\* ----------------------------------------------------------------- bounds
MaxMounts == 1      \* times the training view is entered
MaxStarts == 2      \* session starts over the whole run
MaxSnapshotStarts == 1  \* session starts under SpecSnapshot and SpecTranscript
MaxChunks == 2      \* audio chunks one processor is handed
MaxTime   == 2      \* clock readings after the initial one
TickMs    == 3500   \* milliseconds between two clock readings
MaxBusy   == 2      \* outstanding face classifications of one interval
MaxWords  == 4      \* words one recognizer hears
MaxResults == 2     \* result events one recognizer delivers
MaxSamples == 2     \* samples in one audio chunk
SampleDen == 4      \* a sample is k / SampleDen for an integer k in -SampleDen..SampleDen

\* ------------------------------------------------------------ environment
\* Session identifiers: null, `session_${random}` of the k-th start (taken to
\* be fresh each time), or a session_id answered by the Session Log Service.
None == [by |-> "none", n |-> 0]
TempSessionId(k) == [by |-> "client", n |-> k]
ServerIds == {[by |-> "server", n |-> 1]}

\* Transcript batches: the tokens of one recognition event after
\* toLowerCase/split(/\s+/)/filter(Boolean)  (lines 313-317).
Vocabulary == {"um", "hello"}
Batches == {<<>>} \cup {<<a>> : a \in Vocabulary}
              \cup {<<a, b, c>> : a \in {"um"}, b \in Vocabulary, c \in {"hello"}}

\* Shoulder and nose landmarks in thousandths of the normalized frame, with the
\* shoulder-line angle atan2(R.y - L.y, R.x - L.x) in tenths of a degree.
PoseSamples ==
  { [Ly |-> 400, Ry |-> 420, Lx |-> 300, Rx |-> 700, noseX |-> 500, angle10 |-> 29],
    [Ly |-> 400, Ry |-> 600, Lx |-> 700, Rx |-> 300, noseX |-> 700, angle10 |-> 1534] }

\* atan2(R.y - L.y, R.x - L.x) * (180 / Math.PI) in tenths of a degree, for the
\* shoulder offsets <<R.x - L.x, R.y - L.y>> (thousandths of the frame) of the
\* inputs below: <<dx, dy, angle>>.
Atan2Table ==
  {
    <<-400, -300, -1431>>, <<-400, -125, -1626>>, <<-400, -20, -1771>>, <<-400, -1, -1799>>, <<-400, 0, 1800>>,
    <<-400, 1, 1799>>, <<-400, 20, 1771>>, <<-400, 125, 1626>>, <<-400, 300, 1431>>,
    <<-1, -300, -902>>, <<-1, -125, -905>>, <<-1, -20, -929>>, <<-1, -1, -1350>>, <<-1, 0, 1800>>,
    <<-1, 1, 1350>>, <<-1, 20, 929>>, <<-1, 125, 905>>, <<-1, 300, 902>>,
    <<0, -300, -900>>, <<0, -125, -900>>, <<0, -20, -900>>, <<0, -1, -900>>, <<0, 0, 0>>,
    <<0, 1, 900>>, <<0, 20, 900>>, <<0, 125, 900>>, <<0, 300, 900>>,
    <<1, -300, -898>>, <<1, -125, -895>>, <<1, -20, -871>>, <<1, -1, -450>>, <<1, 0, 0>>,
    <<1, 1, 450>>, <<1, 20, 871>>, <<1, 125, 895>>, <<1, 300, 898>>,
    <<400, -300, -369>>, <<400, -125, -174>>, <<400, -20, -29>>, <<400, -1, -1>>, <<400, 0, 0>>,
    <<400, 1, 1>>, <<400, 20, 29>>, <<400, 125, 174>>, <<400, 300, 369>>
  }

\* Landmarks with the left shoulder at (0.5, 0.4) and the right shoulder at
\* every offset of the table: level, vertical, mirrored and steep shoulder lines.
PoseInputs ==
  { [Ly |-> 400, Ry |-> 400 + t[2], Lx |-> 500, Rx |-> 500 + t[1], noseX |-> 500,
     angle10 |-> t[3]] : t \in Atan2Table }

Labels == {"happy"}

\* Audio chunks: event.inputBuffer.getChannelData(0), samples in [-1, 1] given
\* by their numerators over SampleDen.
Samples == (-SampleDen)..SampleDen
Chunks == UNION {[1..n -> Samples] : n \in 1..MaxSamples}
Silence == << 0 >>

\* ------------------------------------------------------------------ state
VARIABLES
  view,            \* App: useState("home")
  sessionData,     \* App: useState({...})
  appSessionId,    \* App: sessionId
  appFetches,      \* App: handleEndSession calls waiting for fetch
  streamRef,       \* App: streamRef.current, shared with TrainingPage: "null", or
                   \* who acquired the stream it holds ("app", "camera")
  webcamPending,   \* App: startWebcam calls waiting for getUserMedia
  leaked,          \* who acquired the streams with live tracks that no ref holds
                   \* any more
  inst,            \* number of TrainingPage instances mounted so far
  metrics,         \* TrainingPage: useState({...})
  isSessionActive, \* TrainingPage: useState(false)
  sessionId,       \* TrainingPage: useState(null)
  error,           \* TrainingPage: useState(null), as "set or not"
  recognitionRef,  \* TrainingPage refs (0 = null, else an index)
  wsRef,
  audioCtxRef,
  processorRef,
  audioStreamRef,
  effects,         \* runs of the pose/face effect (lines 142-233)
  recs,            \* SpeechRecognition objects (lines 302-331)
  socks,           \* WebSocket objects (line 238)
  audioCalls,      \* startAudioStreaming calls waiting at line 249
  procs,           \* microphone stream + AudioContext + ScriptProcessor (249-269)
  fetches,         \* handleSessionToggle calls waiting for fetch (line 350)
  now,             \* Date.now(), in clock readings TickMs apart
  speechSupported, \* "webkitSpeechRecognition" in window || "SpeechRecognition" in window
  starts,          \* number of start() so far
  ends,            \* number of end() so far
  endLog,          \* history: the record as it stood at each end()
  forwarded,       \* history: the arguments of the calls of onEndSession
  lastPose         \* history: the landmarks of the last pose result written to
                   \* metrics, with the instance it was written to (<<>>: none)

appVars  == << view, sessionData, appSessionId >>
camVars  == << streamRef, webcamPending, leaked >>
pageVars == << inst, metrics, isSessionActive, sessionId, error >>
refVars  == << recognitionRef, wsRef, audioCtxRef, processorRef, audioStreamRef >>
envVars  == << now, speechSupported >>
histVars == << endLog, forwarded, lastPose >>

vars == << appVars, appFetches, camVars, pageVars, refVars, effects, recs, socks,
           audioCalls, procs, fetches, envVars, starts, ends, histVars >>

\* ---------------------------------------------------------------- helpers
Max(a, b) == IF a >= b THEN a ELSE b
Abs(a) == IF a >= 0 THEN a ELSE -a

Remove(s, i) == [k \in 1..(Len(s) - 1) |-> IF k < i THEN s[k] ELSE s[k + 1]]

\* useState defaults of TrainingPage (125-135).
DefaultMetrics ==
  [posture |-> 0, headTilt |-> 0, eyeContact |-> "Unknown",
   emotion |-> "Detecting...", wpm |-> 0, fillers |-> 0,
   volume |-> 0, pitch |-> 0, tone |-> "Neutral"]

\* useState default of App.sessionData (10-16).
DefaultSessionData ==
  [wpm |-> 0, posture |-> 0, eyeContact |-> "Unknown", fillers |-> 0,
   emotion |-> "Neutral"]

\* The TrainingPage instance that created an object is still the mounted one:
\* setState and ref writes of an unmounted instance reach nothing.
Mounted(i) == view = "training" /\ i = inst

\* Number.prototype.toFixed(0) of v/10: nearest integer, halves away from zero.
ToFixed0of10(v) == IF v >= 0 THEN (v + 5) \div 10 ELSE -((-v + 5) \div 10)

\* (A variant that truncates: MathFloor.)
MathFloor(a, b) == a \div b

\* Math.round(a / b) for a >= 0, b > 0: halves round up.
MathRound(a, b) == (2 * a + b) \div (2 * b)

\* ------------------------------------------------- pose.onResults (158-187)
\* shoulderTilt = (R.y - L.y) * 100, in tenths
ShoulderTilt(lm) == lm.Ry - lm.Ly

\* (A variant without Math.max(0, ...): PostureUnclamped.)
PostureUnclamped(lm) == ToFixed0of10(1000 - Abs(ShoulderTilt(lm)) * 4)

\* Number(Math.max(0, 100 - Math.abs(shoulderTilt) * 4).toFixed(0))
PostureScore(lm) == ToFixed0of10(Max(0, 1000 - Abs(ShoulderTilt(lm)) * 4))

\* (A variant with the first if only: NormalizeTiltHigh.)
NormalizeTiltHigh(a) == IF a > 900 THEN a - 1800 ELSE a

\* rawTilt folded by the two ifs of lines 171-172
NormalizeTilt10(a) ==
  LET b == IF a > 900 THEN a - 1800 ELSE a
  IN  IF b < -900 THEN b + 1800 ELSE b

\* Number(rawTilt.toFixed(0))
HeadTilt(lm) == ToFixed0of10(NormalizeTilt10(lm.angle10))

\* Math.abs(nose.x - 0.5) < 0.05
EyeContact(lm) == IF Abs(lm.noseX - 500) < 50 THEN "Good" ELSE "Looking Away"

PosePatch(prev, lm) ==
  [prev EXCEPT !.posture = PostureScore(lm), !.headTilt = HeadTilt(lm),
               !.eyeContact = EyeContact(lm)]

\* emotion.charAt(0).toUpperCase() + emotion.slice(1)
Capitalize(l) == IF l = "happy" THEN "Happy" ELSE l

\* (A variant that does not spread prev: EmotionPatchFresh.)
EmotionPatchFresh(prev, l) == [DefaultMetrics EXCEPT !.emotion = Capitalize(l)]

EmotionPatch(prev, l) == [prev EXCEPT !.emotion = Capitalize(l)]

\* ------------------------------------------ recognition.onresult (312-327)
Fillers == {"um", "uh", "like", "basically", "you know"}

CountFillers(words) == Cardinality({k \in 1..Len(words) : words[k] \in Fillers})

\* elapsedMinutes = elapsedMs / 60000;
\* elapsedMinutes > 0 ? Math.round(wordCount / elapsedMinutes) : 0
Wpm(wordCount, elapsedMs) ==
  IF elapsedMs > 0 THEN MathRound(60000 * wordCount, elapsedMs) ELSE 0

\* (A variant that also writes a loud, energetic voice: SpeechPatchVoice.)
SpeechPatchVoice(prev, wpm, fillerCount) ==
  [prev EXCEPT !.wpm = wpm, !.fillers = fillerCount, !.volume = 10, !.tone = "Energetic"]

SpeechPatch(prev, wpm, fillerCount) == [prev EXCEPT !.wpm = wpm, !.fillers = fillerCount]

\* ------------------------------------------------------------ media streams
\* A stream held by streamRef has live tracks: wherever its tracks are stopped
\* the ref is cleared (37-40, 228-231).  `streamRef.current = stream` over a
\* stream already held drops the only reference to the old one, whose tracks
\* nothing stops afterwards; so does a stream that is stored nowhere.
Overwritten(lk, ref) == IF ref = "null" THEN lk ELSE lk \cup {ref}

\* -------------------------------------- the pose/face effect (142-233)
\* One run of the effect: the closure's isSessionActive and videoEl, where
\* startCamera stands, and the camera and the interval it created.
NewEffect(i, active, hasVideo) ==
  [inst |-> i, active |-> active, videoEl |-> hasVideo, pc |-> "pending",
   cameraOn |-> FALSE, timerOn |-> FALSE, cleaned |-> FALSE,
   poseBusy |-> FALSE, emoBusy |-> 0]

\* The effect's cleanup (225-232) on the effect record: camera.stop() and
\* clearInterval, each only if startCamera has created it by now.
Cleanup(e) == [e EXCEPT !.cameraOn = FALSE, !.timerOn = FALSE, !.cleaned = TRUE]

\* A run of the effect is forgotten once no event of it can change anything:
\* it is cleaned up and past startCamera, and either its component is gone or
\* it closed over isSessionActive = false or it has no camera, no interval and
\* no inference left.
Inert(e, mounted) ==
  /\ e.cleaned
  /\ e.pc # "pending"
  /\ \/ ~mounted
     \/ ~e.active
     \/ ~e.cameraOn /\ ~e.timerOn /\ ~e.poseBusy /\ e.emoBusy = 0

Live(effs) == SelectSeq(effs, LAMBDA e : ~Inert(e, Mounted(e.inst)))

\* The run of the mounted instance that has not been cleaned up is the last one.
CleanupCurrent(effs) ==
  IF Len(effs) > 0 /\ ~effs[Len(effs)].cleaned
  THEN [effs EXCEPT ![Len(effs)] = Cleanup(@)]
  ELSE effs

\* The runs left when the component is unmounted.
Unmounted(effs) == SelectSeq(CleanupCurrent(effs), LAMBDA e : ~Inert(e, FALSE))

\* ------------------------------------------------------------------- Init
\* What is as constructed while no session has been started in any view.
NoSessionYet ==
  /\ sessionData = DefaultSessionData
  /\ appSessionId = None
  /\ appFetches = <<>>
  /\ streamRef = "null"
  /\ leaked = {}
  /\ isSessionActive = FALSE
  /\ sessionId = None
  /\ error = FALSE
  /\ recognitionRef = 0
  /\ wsRef = 0
  /\ audioCtxRef = 0
  /\ processorRef = 0
  /\ audioStreamRef = 0
  /\ recs = <<>>
  /\ socks = <<>>
  /\ audioCalls = <<>>
  /\ procs = <<>>
  /\ fetches = <<>>
  /\ now = 0
  /\ starts = 0
  /\ ends = 0
  /\ endLog = <<>>
  /\ forwarded = <<>>
  /\ lastPose = <<>>

InitState ==
  /\ view = "home"
  /\ webcamPending = 0
  /\ inst = 0
  /\ metrics = DefaultMetrics
  /\ effects = <<>>
  /\ NoSessionYet

\* A browser with speech recognition.
Init == InitState /\ speechSupported = TRUE

\* Any browser.
InitAnyBrowser == InitState /\ speechSupported \in BOOLEAN

\* ------------------------------------------------ live tips (396-402)
\* The paragraphs the live-tips panel renders for a record, in document order.
\* (A variant that renders only the first tip that applies: LiveTipsFirst.)
LiveTipsFirst(m) ==
  IF m.posture < 60 THEN << "Straighten your posture" >>
  ELSE IF m.eyeContact # "Good" THEN << "Maintain eye contact" >>
  ELSE IF m.volume < 10 THEN << "Speak louder" >>
  ELSE IF m.fillers > 5 THEN << "Reduce filler words" >>
  ELSE IF m.tone = "Energetic" THEN << "Great energy!" >>
  ELSE << >>

LiveTips(m) ==
     (IF m.posture < 60 THEN << "Straighten your posture" >> ELSE << >>)
  \o (IF m.eyeContact # "Good" THEN << "Maintain eye contact" >> ELSE << >>)
  \o (IF m.volume < 10 THEN << "Speak louder" >> ELSE << >>)
  \o (IF m.fillers > 5 THEN << "Reduce filler words" >> ELSE << >>)
  \o (IF m.tone = "Energetic" THEN << "Great energy!" >> ELSE << >>)

\* Records on both sides of each tip's threshold.
TipRecords ==
  { [DefaultMetrics EXCEPT !.posture = p, !.eyeContact = ec, !.volume = v,
                           !.fillers = f, !.tone = t] :
      p \in {59, 60}, ec \in {"Good", "Looking Away", "Unknown"}, v \in {9, 10},
      f \in {5, 6}, t \in {"Neutral", "Energetic"} }

\* A mounted training view (as HandleStartSession leaves it) whose panel is
\* given any of these records.
InitTips ==
  /\ view = "training"
  /\ webcamPending = 1
  /\ inst = 1
  /\ metrics \in TipRecords
  /\ effects = << NewEffect(1, FALSE, TRUE) >>
  /\ NoSessionYet
  /\ speechSupported = TRUE

\* ------------------------------------------------------------ App (8-108)
\* HomePage's start button: handleStartSession, setView("training").  The
\* TrainingPage mounts with its useState/useRef defaults and runs its effect
\* (startCamera is called, line 223); then App's effect runs with
\* view === "training" and calls startWebcam (line 34).
HandleStartSession ==
  /\ view = "home"
  /\ inst < MaxMounts
  /\ view' = "training"
  /\ inst' = inst + 1
  /\ metrics' = DefaultMetrics
  /\ isSessionActive' = FALSE
  /\ sessionId' = None
  /\ error' = FALSE
  /\ recognitionRef' = 0
  /\ wsRef' = 0
  /\ audioCtxRef' = 0
  /\ processorRef' = 0
  /\ audioStreamRef' = 0
  /\ effects' = Append(effects, NewEffect(inst + 1, FALSE, TRUE))
  /\ webcamPending' = webcamPending + 1
  /\ UNCHANGED << sessionData, appSessionId, appFetches, streamRef, leaked, recs,
                  socks, audioCalls, procs, fetches, envVars, starts, ends, histVars >>

\* startWebcam after its await (27-32): the stream is stored whatever the view
\* has become; videoRef.current is null, as no element takes App's videoRef.
StartWebcamDone(ok) ==
  /\ webcamPending > 0
  /\ webcamPending' = webcamPending - 1
  /\ IF ok
     THEN /\ leaked' = Overwritten(leaked, streamRef)
          /\ streamRef' = "app"
     ELSE UNCHANGED << leaked, streamRef >>
  /\ UNCHANGED << appVars, appFetches, pageVars, refVars, effects, recs, socks,
                  audioCalls, procs, fetches, envVars, starts, ends, histVars >>

\* What a change of view away from "training" runs: the TrainingPage unmounts,
\* so its effect's cleanup runs (225-232), then App's effect takes its else
\* branch (36-40).  Both stop the tracks of streamRef.current and clear it.
LeaveTraining ==
  /\ effects' = Unmounted(effects)
  /\ streamRef' = "null"

\* App's effect when the view changes between two views other than "training".
AppEffectElse ==
  /\ streamRef' = "null"
  /\ UNCHANGED effects

\* ReportPage's back button: handleBackToHome.
HandleBackToHome ==
  /\ view = "report"
  /\ view' = "home"
  /\ AppEffectElse
  /\ UNCHANGED << sessionData, appSessionId, appFetches, webcamPending, leaked,
                  pageVars, refVars, recs, socks, audioCalls, procs, fetches,
                  envVars, starts, ends, histVars >>

\* handleEndSession (45-63) up to its await: the snapshot it was given is the
\* body of a second POST to /api/session/log.
HandleEndSessionCall(snapshot) == [metrics |-> snapshot]

\* handleEndSession after its await.  A response: sessionData, sessionId and
\* the view are set (56-58).  No response: an alert, nothing else (59-62).
HandleEndSessionDone(i, ok, sid) ==
  /\ i \in 1..Len(appFetches)
  /\ appFetches' = Remove(appFetches, i)
  /\ IF ok
     THEN /\ sessionData' = appFetches[i].metrics
          /\ appSessionId' = sid
          /\ view' = "report"
          /\ IF view = "training" THEN LeaveTraining
             ELSE IF view # "report" THEN AppEffectElse
             ELSE UNCHANGED << streamRef, effects >>
     ELSE UNCHANGED << appVars, streamRef, effects >>
  /\ UNCHANGED << webcamPending, leaked, pageVars, refVars, recs, socks, audioCalls,
                  procs, fetches, envVars, starts, ends, histVars >>

\* ------------------------------------------- TrainingPage (110-424)
\* startSpeechRecognition (295-332): a recognizer with its own counters and
\* start time, stored in recognitionRef and started; nothing if unsupported.
\* (results and heard are history: the number of result events it has
\* delivered, and how many times each token has occurred in their batches.)
NewRecognition(i, session) ==
  [inst |-> i, session |-> session, state |-> "running",
   wordCount |-> 0, fillerCount |-> 0, startTime |-> now, results |-> 0,
   heard |-> [v \in Vocabulary |-> 0]]

\* recognition.stop(): the recognizer stops listening and may still deliver a
\* result for the audio it has; it has ended once `end` has fired.
RecStop(r) == [r EXCEPT !.state = IF @ = "running" THEN "stopping" ELSE @]

\* stopSpeechRecognition (334-339) on the recognizers.
StopSpeechRecognition(rs) ==
  IF recognitionRef # 0 THEN [rs EXCEPT ![recognitionRef] = RecStop(@)] ELSE rs

\* new WebSocket(url) (238): CONNECTING, with the sid its onopen closes over.
NewSocket(i, sid, session) ==
  [inst |-> i, session |-> session, sid |-> sid, state |-> "CONNECTING", sent |-> <<>>]

\* WebSocket.close(): a connecting or open socket starts closing.
SockClose(w) == [w EXCEPT !.state = IF @ \in {"CONNECTING", "OPEN"} THEN "CLOSING" ELSE @]

\* stopAudioStreaming (278-292).  The four calls of the try block run in order;
\* `fail` is the call that throws (0: none), and the calls after it are skipped.
\* The finally block clears the four refs (in the action that uses this).
Completed(step, fail) == fail = 0 \/ step < fail

\* (A variant without the optional chaining, `ref.current.f()`: CanFailOnNull.)
CanFailOnNull(fail) == fail \in 0..4

\* A call can throw only if it is made: `ref.current?.f()` calls nothing on null.
CanFail(fail) ==
  \/ fail = 0
  \/ fail = 1 /\ wsRef # 0
  \/ fail = 2 /\ audioStreamRef # 0
  \/ fail = 3 /\ processorRef # 0
  \/ fail = 4 /\ audioCtxRef # 0

StopAudioSocks(ss, fail) ==
  IF wsRef # 0 /\ Completed(1, fail) THEN [ss EXCEPT ![wsRef] = SockClose(@)] ELSE ss

StopAudioProcs(ps, fail) ==
  LET a == IF audioStreamRef # 0 /\ Completed(2, fail)
           THEN [ps EXCEPT ![audioStreamRef].micLive = FALSE] ELSE ps
      b == IF processorRef # 0 /\ Completed(3, fail)
           THEN [a EXCEPT ![processorRef].connected = FALSE] ELSE a
  IN  IF audioCtxRef # 0 /\ Completed(4, fail)
      THEN [b EXCEPT ![audioCtxRef].ctxOpen = FALSE] ELSE b

\* The re-render after setIsSessionActive(v): the effect's cleanup, then a new
\* run of the effect closing over v and over videoRef.current, which is null
\* when the error message is rendered in place of the video (392).
RerunEffect(effs, v) == Append(Live(CleanupCurrent(effs)), NewEffect(inst, v, ~error))

\* startAudioStreaming(sid) up to its await (236-249).
StartAudioStreaming(sid) ==
  /\ socks' = Append(socks, NewSocket(inst, sid, starts + 1))
  /\ wsRef' = Len(socks) + 1
  /\ audioCalls' = Append(audioCalls, [inst |-> inst, ws |-> Len(socks) + 1])

\* handleSessionToggle, else branch (363-370): start(), in a run of at most
\* `bound` starts.
StartSessionUpTo(bound) ==
  /\ view = "training"
  /\ ~isSessionActive
  /\ starts < bound
  /\ starts' = starts + 1
  /\ sessionId' = TempSessionId(starts + 1)
  /\ IF speechSupported
     THEN /\ recs' = Append(recs, NewRecognition(inst, starts + 1))
          /\ recognitionRef' = Len(recs) + 1
     ELSE UNCHANGED << recs, recognitionRef >>
  /\ StartAudioStreaming(TempSessionId(starts + 1))
  /\ isSessionActive' = TRUE
  /\ effects' = RerunEffect(effects, TRUE)
  /\ streamRef' = "null"
  /\ UNCHANGED << appVars, appFetches, webcamPending, leaked, inst, metrics, error,
                  audioCtxRef, processorRef, audioStreamRef, procs, fetches, envVars,
                  ends, histVars >>

StartSession == StartSessionUpTo(MaxStarts)

\* handleSessionToggle, if branch (343-354) up to its await: end().  The body of
\* the POST is the `metrics` the handler closed over.
EndSession(fail) ==
  /\ view = "training"
  /\ isSessionActive
  /\ CanFail(fail)
  /\ recs' = StopSpeechRecognition(recs)
  /\ recognitionRef' = 0
  /\ socks' = StopAudioSocks(socks, fail)
  /\ procs' = StopAudioProcs(procs, fail)
  /\ wsRef' = 0
  /\ audioStreamRef' = 0
  /\ processorRef' = 0
  /\ audioCtxRef' = 0
  /\ isSessionActive' = FALSE
  /\ effects' = RerunEffect(effects, FALSE)
  /\ streamRef' = "null"
  /\ ends' = ends + 1
  /\ fetches' = Append(fetches, [inst |-> inst, metrics |-> metrics, endNo |-> ends + 1])
  /\ endLog' = Append(endLog, metrics)
  /\ UNCHANGED << appVars, appFetches, webcamPending, leaked, inst, metrics,
                  sessionId, error, audioCalls, envVars, starts, forwarded, lastPose >>

\* handleSessionToggle after its await (355-362): with a response, sessionId is
\* set and the snapshot goes to onEndSession with the server's session_id;
\* without one, the snapshot goes to onEndSession as it is.
\* (endNo and answered are history: which end() this is the snapshot of, and
\* whether the Session Log Service answered the POST.)
\* (A variant that reads the record when the response arrives, not when end()
\* ran: ForwardedLiveRecord.)
ForwardedLiveRecord(f, ok, sid) ==
  [metrics |-> metrics, session_id |-> IF ok THEN sid ELSE None,
   endNo |-> f.endNo, answered |-> ok]

ForwardedSnapshot(f, ok, sid) ==
  [metrics |-> f.metrics, session_id |-> IF ok THEN sid ELSE None,
   endNo |-> f.endNo, answered |-> ok]

SubmitDone(i, ok, sid) ==
  /\ i \in 1..Len(fetches)
  /\ fetches' = Remove(fetches, i)
  /\ sessionId' = IF ok /\ Mounted(fetches[i].inst) THEN sid ELSE sessionId
  /\ appFetches' = Append(appFetches,
                          HandleEndSessionCall(ForwardedSnapshot(fetches[i], ok, sid)))
  /\ forwarded' = Append(forwarded, ForwardedSnapshot(fetches[i], ok, sid))
  /\ UNCHANGED << appVars, camVars, inst, metrics, isSessionActive, error, refVars,
                  effects, recs, socks, audioCalls, procs, envVars, starts, ends,
                  endLog, lastPose >>

\* startCamera after its awaits (192-216).  Granted: the stream goes to
\* videoEl.srcObject and to the shared streamRef if there is a video element
\* (and nowhere if there is none), the camera is started and the interval is
\* set, whether or not this run of the effect has been cleaned up meanwhile.
\* Refused, or a model failed to load: setError (217-220).
StartCameraDone(e, ok) ==
  /\ e \in 1..Len(effects)
  /\ effects[e].pc = "pending"
  /\ IF ok
     THEN /\ leaked' = IF effects[e].videoEl THEN Overwritten(leaked, streamRef)
                       ELSE Overwritten(leaked, "camera")
          /\ streamRef' = IF effects[e].videoEl THEN "camera" ELSE streamRef
          /\ effects' = Live([effects EXCEPT ![e].pc = "ran",
                                             ![e].cameraOn = effects[e].videoEl,
                                             ![e].timerOn = TRUE])
          /\ UNCHANGED error
     ELSE /\ effects' = Live([effects EXCEPT ![e].pc = "failed"])
          /\ error' = IF Mounted(effects[e].inst) THEN TRUE ELSE error
          /\ UNCHANGED << leaked, streamRef >>
  /\ UNCHANGED << appVars, appFetches, webcamPending, inst, metrics, isSessionActive,
                  sessionId, refVars, recs, socks, audioCalls, procs, fetches,
                  envVars, starts, ends, histVars >>

\* Camera's onFrame (202): a frame goes to pose.send only if this run of the
\* effect closed over isSessionActive = true; the camera waits for onFrame to
\* finish before the next frame.
OnFrame(e) ==
  /\ e \in 1..Len(effects)
  /\ effects[e].cameraOn
  /\ effects[e].active
  /\ ~effects[e].poseBusy
  /\ effects' = [effects EXCEPT ![e].poseBusy = TRUE]
  /\ UNCHANGED << appVars, appFetches, camVars, pageVars, refVars, recs, socks,
                  audioCalls, procs, fetches, envVars, starts, ends, histVars >>

\* pose.onResults (158-187) with the three landmarks found.
PoseOnResults(e, lm) ==
  /\ e \in 1..Len(effects)
  /\ effects[e].poseBusy
  /\ effects' = Live([effects EXCEPT ![e].poseBusy = FALSE])
  /\ metrics' = IF Mounted(effects[e].inst) THEN PosePatch(metrics, lm) ELSE metrics
  /\ lastPose' = IF Mounted(effects[e].inst)
                   THEN << [inst |-> effects[e].inst, lm |-> lm] >>
                   ELSE lastPose
  /\ UNCHANGED << appVars, appFetches, camVars, inst, isSessionActive, sessionId,
                  error, refVars, recs, socks, audioCalls, procs, fetches, envVars,
                  starts, ends, endLog, forwarded >>

\* pose.onResults without poseLandmarks, or with one of the three missing.
PoseNoLandmarks(e) ==
  /\ e \in 1..Len(effects)
  /\ effects[e].poseBusy
  /\ effects' = Live([effects EXCEPT ![e].poseBusy = FALSE])
  /\ UNCHANGED << appVars, appFetches, camVars, pageVars, refVars, recs, socks,
                  audioCalls, procs, fetches, envVars, starts, ends, histVars >>

\* The interval's callback up to its await (208-210), when it does not return
\* at line 209: a classification of the current frame starts.
EmotionTick(e) ==
  /\ e \in 1..Len(effects)
  /\ effects[e].timerOn
  /\ effects[e].active
  /\ effects[e].videoEl
  /\ effects[e].emoBusy < MaxBusy
  /\ effects' = [effects EXCEPT ![e].emoBusy = @ + 1]
  /\ UNCHANGED << appVars, appFetches, camVars, pageVars, refVars, recs, socks,
                  audioCalls, procs, fetches, envVars, starts, ends, histVars >>

\* The interval's callback after its await (211-215), a face detected.
EmotionDetected(e, l) ==
  /\ e \in 1..Len(effects)
  /\ effects[e].emoBusy > 0
  /\ effects' = Live([effects EXCEPT ![e].emoBusy = @ - 1])
  /\ metrics' = IF Mounted(effects[e].inst) THEN EmotionPatch(metrics, l) ELSE metrics
  /\ UNCHANGED << appVars, appFetches, camVars, inst, isSessionActive, sessionId,
                  error, refVars, recs, socks, audioCalls, procs, fetches, envVars,
                  starts, ends, histVars >>

\* The interval's callback after its await, no face detected.
EmotionNoFace(e) ==
  /\ e \in 1..Len(effects)
  /\ effects[e].emoBusy > 0
  /\ effects' = Live([effects EXCEPT ![e].emoBusy = @ - 1])
  /\ UNCHANGED << appVars, appFetches, camVars, pageVars, refVars, recs, socks,
                  audioCalls, procs, fetches, envVars, starts, ends, histVars >>

\* Date.now() - startTime (320).
ElapsedMs(rec) == (now - rec.startTime) * TickMs

\* (A variant that drops the update when either test holds: DiscardedEither.)
DiscardedEither(words, wpm) == Len(words) < 3 \/ wpm < 40

\* The guard of line 324: the batch's update is dropped.
Discarded(words, wpm) == Len(words) < 3 /\ wpm < 40

\* The occurrences of each token in the batches so far and in this one.
Hear(heard, words) ==
  [v \in Vocabulary |-> heard[v] + Cardinality({k \in 1..Len(words) : words[k] = v})]

\* (A variant whose counters keep only the batches that are applied:
\* OnResultAppliedOnly.)
OnResultAppliedOnly(r, words) ==
  /\ r \in 1..Len(recs)
  /\ recs[r].state \in {"running", "stopping"}
  /\ recs[r].wordCount + Len(words) <= MaxWords
  /\ recs[r].results < MaxResults
  /\ LET wordCount == recs[r].wordCount + Len(words)
         fillerCount == recs[r].fillerCount + CountFillers(words)
         wpm == Wpm(wordCount, ElapsedMs(recs[r]))
         drop == Discarded(words, wpm)
     IN  /\ recs' = [recs EXCEPT ![r].wordCount = IF drop THEN @ ELSE wordCount,
                                 ![r].fillerCount = IF drop THEN @ ELSE fillerCount,
                                 ![r].results = @ + 1,
                                 ![r].heard = Hear(@, words)]
         /\ metrics' = IF drop \/ ~Mounted(recs[r].inst)
                       THEN metrics
                       ELSE SpeechPatch(metrics, wpm, fillerCount)
  /\ UNCHANGED << appVars, appFetches, camVars, inst, isSessionActive, sessionId,
                  error, refVars, effects, socks, audioCalls, procs, fetches, envVars,
                  starts, ends, histVars >>

\* recognition.onresult (312-327) for a batch of tokens.
OnResult(r, words) ==
  /\ r \in 1..Len(recs)
  /\ recs[r].state \in {"running", "stopping"}
  /\ recs[r].wordCount + Len(words) <= MaxWords
  /\ recs[r].results < MaxResults
  /\ LET wordCount == recs[r].wordCount + Len(words)
         fillerCount == recs[r].fillerCount + CountFillers(words)
         wpm == Wpm(wordCount, ElapsedMs(recs[r]))
     IN  /\ recs' = [recs EXCEPT ![r].wordCount = wordCount,
                                 ![r].fillerCount = fillerCount,
                                 ![r].results = @ + 1,
                                 ![r].heard = Hear(@, words)]
         /\ metrics' = IF Discarded(words, wpm) \/ ~Mounted(recs[r].inst)
                       THEN metrics
                       ELSE SpeechPatch(metrics, wpm, fillerCount)
  /\ UNCHANGED << appVars, appFetches, camVars, inst, isSessionActive, sessionId,
                  error, refVars, effects, socks, audioCalls, procs, fetches, envVars,
                  starts, ends, histVars >>

\* The recognizer ends: after stop(), or on its own after an error (329).
RecognitionEnd(r) ==
  /\ r \in 1..Len(recs)
  /\ recs[r].state \in {"running", "stopping"}
  /\ recs' = [recs EXCEPT ![r].state = "ended"]
  /\ UNCHANGED << appVars, appFetches, camVars, pageVars, refVars, effects, socks,
                  audioCalls, procs, fetches, envVars, starts, ends, histVars >>

\* Date.now() advances.  Only a recognizer that can still deliver a result
\* reads the clock after it was created (310, 320), so the clock is followed
\* while there is one.
Tick ==
  /\ now < MaxTime
  /\ \E r \in 1..Len(recs) : recs[r].state \in {"running", "stopping"}
  /\ now' = now + 1
  /\ UNCHANGED << appVars, appFetches, camVars, pageVars, refVars, effects, recs,
                  socks, audioCalls, procs, fetches, speechSupported, starts, ends, histVars >>

\* --------------------------------------------- audio uplink (236-275)
\* 0x7fff (263)
Scale == 32767

\* Storing a number into an Int16Array element: the fraction is dropped
\* (towards zero) and the integer is taken modulo 2^16 into -32768..32767.
Truncate(n, d) == IF n >= 0 THEN n \div d ELSE -((-n) \div d)
ToInt16(v) == ((v + 32768) % 65536) - 32768

\* pcm16[i] = input[i] * 0x7fff for each sample (262-263).
Pcm16(input) == [i \in 1..Len(input) |-> ToInt16(Truncate(input[i] * Scale, SampleDen))]

\* Messages on the socket: the bind message, and one binary frame per chunk
\* (proc and chunk are history: the k-th chunk handed to processor p).
BindMessage(sid) ==
  [type |-> "bind", session_id |-> sid, proc |-> 0, chunk |-> 0, data |-> << >>]
AudioFrame(p, k, input) ==
  [type |-> "audio", session_id |-> None, proc |-> p, chunk |-> k, data |-> Pcm16(input)]

\* ws.onopen (241-244), run as the socket becomes OPEN: if (sid) ws.send(...).
\* (A variant whose onopen sends nothing: WsOnOpenSilent.)
WsOnOpenSilent(w) == [w EXCEPT !.state = "OPEN"]

WsOnOpen(w) ==
  [w EXCEPT !.state = "OPEN",
            !.sent = IF w.sid # None THEN Append(@, BindMessage(w.sid)) ELSE @]

SocketOpens(w) ==
  /\ w \in 1..Len(socks)
  /\ socks[w].state = "CONNECTING"
  /\ socks' = [socks EXCEPT ![w] = WsOnOpen(@)]
  /\ UNCHANGED << appVars, appFetches, camVars, pageVars, refVars, effects, recs,
                  audioCalls, procs, fetches, envVars, starts, ends, histVars >>

\* The connection fails to open, drops while open, or finishes closing:
\* ws.onerror / ws.onclose only log (246-247).
SocketCloses(w) ==
  /\ w \in 1..Len(socks)
  /\ socks[w].state # "CLOSED"
  /\ socks' = [socks EXCEPT ![w].state = "CLOSED"]
  /\ UNCHANGED << appVars, appFetches, camVars, pageVars, refVars, effects, recs,
                  audioCalls, procs, fetches, envVars, starts, ends, histVars >>

\* What one startAudioStreaming call builds once the microphone is granted:
\* the stream, the context and the processor, with the socket the processor
\* closes over and the chunks it has been handed (history: for each, whether
\* the socket was OPEN at that moment, and its samples).
NewProc(i, w) ==
  [inst |-> i, ws |-> w, micLive |-> TRUE, connected |-> TRUE, ctxOpen |-> TRUE,
   captured |-> <<>>, inputs |-> <<>>]

\* startAudioStreaming after its await (249-269), microphone granted: the
\* stream, the context and the processor are stored in the refs and the
\* processor is connected.  Refused: setError (271-274).
StartAudioDone(c, ok) ==
  /\ c \in 1..Len(audioCalls)
  /\ audioCalls' = Remove(audioCalls, c)
  /\ IF ok
     THEN /\ procs' = Append(procs, NewProc(audioCalls[c].inst, audioCalls[c].ws))
          /\ IF Mounted(audioCalls[c].inst)
             THEN /\ audioStreamRef' = Len(procs) + 1
                  /\ audioCtxRef' = Len(procs) + 1
                  /\ processorRef' = Len(procs) + 1
             ELSE UNCHANGED << audioStreamRef, audioCtxRef, processorRef >>
          /\ UNCHANGED error
     ELSE /\ error' = IF Mounted(audioCalls[c].inst) THEN TRUE ELSE error
          /\ UNCHANGED << procs, audioStreamRef, audioCtxRef, processorRef >>
  /\ UNCHANGED << appVars, appFetches, camVars, inst, metrics, isSessionActive,
                  sessionId, recognitionRef, wsRef, effects, recs, socks, fetches,
                  envVars, starts, ends, histVars >>

\* processor.onaudioprocess (259-266) on the socket: the chunk is sent as one
\* frame if ws.readyState === WebSocket.OPEN, and nothing is done otherwise.
\* (A variant without the readyState test: OnAudioProcessUnguarded.)
OnAudioProcessUnguarded(w, p, k, input) ==
  [w EXCEPT !.sent = Append(@, AudioFrame(p, k, input))]

OnAudioProcess(w, p, k, input) ==
  IF w.state = "OPEN" THEN [w EXCEPT !.sent = Append(@, AudioFrame(p, k, input))] ELSE w

\* An audioprocess event of processor p with a chunk of samples.
AudioChunk(p, input) ==
  /\ p \in 1..Len(procs)
  /\ procs[p].connected
  /\ procs[p].ctxOpen
  /\ Len(procs[p].captured) < MaxChunks
  /\ socks' = [socks EXCEPT ![procs[p].ws] =
                 OnAudioProcess(@, p, Len(procs[p].captured) + 1, input)]
  /\ procs' = [procs EXCEPT ![p].captured =
                               Append(@, socks[procs[p].ws].state = "OPEN"),
                             ![p].inputs = Append(@, input)]
  /\ UNCHANGED << appVars, appFetches, camVars, pageVars, refVars, effects, recs,
                  audioCalls, fetches, envVars, starts, ends, histVars >>

\* --------------------------------------------------------- specifications
Navigation ==
  \/ HandleStartSession
  \/ HandleBackToHome

Toggle ==
  \/ StartSession
  \/ EndSession(0)

Submission ==
  \/ \E i \in 1..Len(fetches), ok \in BOOLEAN, sid \in ServerIds : SubmitDone(i, ok, sid)
  \/ \E i \in 1..Len(appFetches), ok \in BOOLEAN, sid \in ServerIds :
       HandleEndSessionDone(i, ok, sid)

PoseEvents ==
  \/ \E e \in 1..Len(effects), ok \in BOOLEAN : StartCameraDone(e, ok)
  \/ \E e \in 1..Len(effects) : OnFrame(e)
  \/ \E e \in 1..Len(effects), lm \in PoseSamples : PoseOnResults(e, lm)
  \/ \E e \in 1..Len(effects) : PoseNoLandmarks(e)

EmotionEvents ==
  \/ \E e \in 1..Len(effects) : EmotionTick(e)
  \/ \E e \in 1..Len(effects), l \in Labels : EmotionDetected(e, l)
  \/ \E e \in 1..Len(effects) : EmotionNoFace(e)

SpeechEvents ==
  \/ \E r \in 1..Len(recs), words \in Batches : OnResult(r, words)
  \/ \E r \in 1..Len(recs) : RecognitionEnd(r)
  \/ Tick

UplinkEvents ==
  \/ \E w \in 1..Len(socks) : SocketOpens(w)
  \/ \E w \in 1..Len(socks) : SocketCloses(w)
  \/ \E c \in 1..Len(audioCalls), ok \in BOOLEAN : StartAudioDone(c, ok)
  \/ \E p \in 1..Len(procs) : AudioChunk(p, Silence)

Answered ==
  \/ \E i \in 1..Len(fetches), sid \in ServerIds : SubmitDone(i, TRUE, sid)
  \/ \E i \in 1..Len(appFetches), sid \in ServerIds : HandleEndSessionDone(i, TRUE, sid)

DeviceEvents ==
  \/ \E ok \in BOOLEAN : StartWebcamDone(ok)
  \/ \E e \in 1..Len(effects), ok \in BOOLEAN : StartCameraDone(e, ok)
  \/ \E c \in 1..Len(audioCalls), ok \in BOOLEAN : StartAudioDone(c, ok)

ConnectionEvents ==
  \/ \E c \in 1..Len(audioCalls), ok \in BOOLEAN : StartAudioDone(c, ok)
  \/ \E w \in 1..Len(socks) : SocketOpens(w)
  \/ \E w \in 1..Len(socks) : SocketCloses(w)

\* The session's life with the pose producer.
Next == Navigation \/ Toggle \/ Submission \/ PoseEvents

Spec == Init /\ [][Next]_vars

\* The same with fewer sessions.
NextSnapshot ==
  \/ Navigation
  \/ StartSessionUpTo(MaxSnapshotStarts)
  \/ EndSession(0)
  \/ Submission
  \/ PoseEvents

SpecSnapshot == Init /\ [][NextSnapshot]_vars

\* The session's life with every acquisition and release of a camera or
\* microphone stream, while the Session Log Service answers.
NextDevices == Navigation \/ Toggle \/ Answered \/ DeviceEvents

SpecDevices == Init /\ [][NextDevices]_vars

\* The session's life with the uplink's connections.
NextConnections == Navigation \/ Toggle \/ Submission \/ ConnectionEvents

SpecConnections == Init /\ [][NextConnections]_vars

\* The audio uplink of the sessions of one training view, while the Session
\* Log Service has not answered.
NextUplink == HandleStartSession \/ Toggle \/ UplinkEvents

SpecUplink == Init /\ [][NextUplink]_vars

\* The same, where a call of stopAudioStreaming's try block may throw.
NextFault ==
  \/ HandleStartSession
  \/ StartSession
  \/ \E fail \in 0..4 : EndSession(fail)
  \/ UplinkEvents

SpecFault == Init /\ [][NextFault]_vars

\* The sessions of one training view with the expression sampler.
NextExpression ==
  \/ HandleStartSession
  \/ Toggle
  \/ \E e \in 1..Len(effects), ok \in BOOLEAN : StartCameraDone(e, ok)
  \/ EmotionEvents

SpecExpression == Init /\ [][NextExpression]_vars

\* The sessions of one training view with the speech transcriber.
NextSpeech ==
  \/ HandleStartSession
  \/ Toggle
  \/ SpeechEvents

SpecSpeech == Init /\ [][NextSpeech]_vars

\* The same with fewer sessions.
NextTranscript ==
  \/ HandleStartSession
  \/ StartSessionUpTo(MaxSnapshotStarts)
  \/ EndSession(0)
  \/ SpeechEvents

SpecTranscript == Init /\ [][NextTranscript]_vars

\* The session-log POSTs issued so far: one by handleSessionToggle per end()
\* (350), one by App.handleEndSession per call of onEndSession (47).
Submissions == ends + Len(forwarded)

\* The live-tips panel of a training view for any record, re-rendered as the
\* pose producer changes the record.
NextTips ==
  \/ StartSessionUpTo(MaxSnapshotStarts)
  \/ EndSession(0)
  \/ PoseEvents

SpecTips == InitTips /\ [][NextTips]_vars

\* A training view and its first session, with the three producers.
NextProducers ==
  \/ HandleStartSession
  \/ StartSessionUpTo(MaxSnapshotStarts)
  \/ PoseEvents
  \/ EmotionEvents
  \/ \E r \in 1..Len(recs), words \in Batches : OnResult(r, words)

SpecProducers == Init /\ [][NextProducers]_vars

\* The uplink of the first session of a training view, with the microphone
\* granted, for any chunks.
NextPcm ==
  \/ HandleStartSession
  \/ StartSessionUpTo(MaxSnapshotStarts)
  \/ \E c \in 1..Len(audioCalls) : StartAudioDone(c, TRUE)
  \/ \E w \in 1..Len(socks) : SocketOpens(w)
  \/ \E p \in 1..Len(procs), input \in Chunks : AudioChunk(p, input)

SpecPcm == Init /\ [][NextPcm]_vars

\* The pose callback of the first session of a training view, with the camera
\* granted, for any landmarks of PoseInputs.
NextPose ==
  \/ HandleStartSession
  \/ StartSessionUpTo(MaxSnapshotStarts)
  \/ \E e \in 1..Len(effects) : StartCameraDone(e, TRUE)
  \/ \E e \in 1..Len(effects) : OnFrame(e)
  \/ \E e \in 1..Len(effects), lm \in PoseInputs : PoseOnResults(e, lm)
  \/ \E e \in 1..Len(effects) : PoseNoLandmarks(e)

SpecPose == Init /\ [][NextPose]_vars

\* The first session of a training view in any browser, started and ended at any
\* point of the uplink's start, where a call of stopAudioStreaming's try block
\* may throw.
NextStop ==
  \/ HandleStartSession
  \/ StartSessionUpTo(MaxSnapshotStarts)
  \/ \E fail \in 0..4 : EndSession(fail)
  \/ \E c \in 1..Len(audioCalls), ok \in BOOLEAN : StartAudioDone(c, ok)
  \/ \E w \in 1..Len(socks) : SocketOpens(w)
  \/ \E w \in 1..Len(socks) : SocketCloses(w)
  \/ \E r \in 1..Len(recs) : RecognitionEnd(r)

SpecStop == InitAnyBrowser /\ [][NextStop]_vars

\* The transcript batches of the first session of a training view, as the
\* clock advances, until the recognizer ends.
NextBatches ==
  \/ HandleStartSession
  \/ StartSessionUpTo(MaxSnapshotStarts)
  \/ \E r \in 1..Len(recs), words \in Batches : OnResult(r, words)
  \/ \E r \in 1..Len(recs) : RecognitionEnd(r)
  \/ Tick

SpecBatches == Init /\ [][NextBatches]_vars

\* ------------------------------------------------------------------ claims
\* A step of the mounted TrainingPage in which no session is active before or
\* after it, a session having ended.
StaysEnded ==
  /\ view = "training" /\ view' = "training" /\ inst' = inst
  /\ ends > 0
  /\ ~isSessionActive /\ ~isSessionActive'

\* C1: once end() has run, no step changes any field of MetricsRecord until
\* the next start().
C1_NoUpdateAfterEnd == [][StaysEnded => metrics' = metrics]_vars

\* C2: every end() has its snapshot either still waiting for the first POST or
\* handed to onEndSession exactly once; what was handed over is the record as
\* it stood when end() was invoked, and it carries no session identifier when
\* the POST was not answered.
C2_SnapshotForwardedOnce ==
  /\ Len(forwarded) + Len(fetches) = ends
  /\ Len(endLog) = ends
  /\ \A k \in 1..Len(forwarded) :
       /\ forwarded[k].endNo \in 1..Len(endLog)
       /\ forwarded[k].metrics = endLog[forwarded[k].endNo]
       /\ ~forwarded[k].answered => forwarded[k].session_id = None
       /\ \A j \in 1..Len(forwarded) : forwarded[j].endNo = forwarded[k].endNo => j = k
       /\ \A j \in 1..Len(fetches) : fetches[j].endNo # forwarded[k].endNo

\* Witness of C2: in the mounted view a snapshot was forwarded after an
\* unanswered POST, and a producer has changed the record since end().
C2_Witness ==
  \E k \in 1..Len(forwarded) :
    /\ view = "training"
    /\ ~forwarded[k].answered
    /\ forwarded[k].metrics # metrics

\* C3: when handleEndSession has finished with a snapshot that carries no
\* session identifier, the view is the report view.  (Nothing but a later
\* session's answered submission sets the view afterwards.)
C3_ReportAfterFailedSubmission ==
  [][\A i \in 1..Len(appFetches) :
       (appFetches' = Remove(appFetches, i) /\ ~appFetches[i].metrics.answered)
         => view' = "report"]_vars

\* C4: the step that starts a session leaves every field of MetricsRecord at
\* its default.
C4_StartResetsMetrics ==
  [][(view = "training" /\ ~isSessionActive /\ isSessionActive')
       => metrics' = DefaultMetrics]_vars

\* C5: outside the training view no stream acquired for it has live tracks, no
\* uplink connection is connecting or open, and no recognizer is listening.
C5_HandlesReleased ==
  view # "training" =>
    /\ streamRef = "null"
    /\ leaked = {}
    /\ \A p \in 1..Len(procs) : ~procs[p].micLive
    /\ \A w \in 1..Len(socks) : socks[w].state \notin {"CONNECTING", "OPEN"}
    /\ \A r \in 1..Len(recs) : recs[r].state # "running"

\* C6: while the mounted view has no active session, no microphone stream of
\* the view has live tracks and no processor of the view is running.
C6_MicrophoneReleasedAfterStop ==
  (view = "training" /\ ~isSessionActive) =>
    \A p \in 1..Len(procs) :
      procs[p].inst = inst => ~procs[p].micLive /\ ~(procs[p].connected /\ procs[p].ctxOpen)

\* C7: at most one connection is connecting or open, it is the one of the
\* active session of the mounted view, and every audio frame on a connection
\* comes from the processor created with it.
ActiveSocks == {w \in 1..Len(socks) : socks[w].state \in {"CONNECTING", "OPEN"}}

C7_OneConnection ==
  /\ Cardinality(ActiveSocks) <= 1
  /\ \A w \in ActiveSocks :
       /\ Mounted(socks[w].inst)
       /\ isSessionActive
       /\ socks[w].session = starts
  /\ \A w \in 1..Len(socks) : \A k \in 1..Len(socks[w].sent) :
       socks[w].sent[k].type = "audio" => procs[socks[w].sent[k].proc].ws = w

\* C8: nothing is sent before the connection opens; once it has opened, the
\* first message is the bind message with the identifier minted by the
\* start() that created the connection, and every later message is an audio
\* frame.
C8_BindFirst ==
  \A w \in 1..Len(socks) :
    LET s == socks[w].sent
    IN  /\ socks[w].state = "CONNECTING" => s = <<>>
        /\ socks[w].state = "OPEN" => Len(s) >= 1
        /\ Len(s) >= 1 => s[1] = BindMessage(TempSessionId(socks[w].session))
        /\ \A k \in 2..Len(s) : s[k].type = "audio"

\* Witness of C8: a connection on which an audio frame followed the bind message.
C8_Witness == \E w \in 1..Len(socks) : Len(socks[w].sent) >= 2

\* C9: the audio frames sent on a processor's connection are, in order, the
\* chunks it was handed while the connection was OPEN, one frame each.
OpenChunks(p) ==
  LET n == Len(procs[p].captured)
      kept == SelectSeq([k \in 1..n |-> k], LAMBDA k : procs[p].captured[k])
  IN  [j \in 1..Len(kept) |-> AudioFrame(p, kept[j], procs[p].inputs[kept[j]])]

AudioFramesOf(w) == SelectSeq(socks[w].sent, LAMBDA m : m.type = "audio")

C9_FramesAreOpenChunks ==
  /\ \A p \in 1..Len(procs) : AudioFramesOf(procs[p].ws) = OpenChunks(p)
  /\ \A w \in 1..Len(socks) :
       (\A p \in 1..Len(procs) : procs[p].ws # w) => AudioFramesOf(w) = <<>>

\* Witness of C9: a processor that had a chunk dropped and a chunk sent.
C9_Witness ==
  \E p \in 1..Len(procs) :
    /\ \E k \in 1..Len(procs[p].captured) : ~procs[p].captured[k]
    /\ \E k \in 1..Len(procs[p].captured) : procs[p].captured[k]

\* end() is the step that takes isSessionActive from true to false.
EndInvoked == view = "training" /\ isSessionActive /\ ~isSessionActive'

\* C10: of the four calls of stopAudioStreaming, at most one (the one that
\* failed) is left undone: a call is carried out whatever happened to the
\* calls before it.
Undone ==
  {k \in 1..4 :
     \/ k = 1 /\ wsRef # 0 /\ socks'[wsRef].state \in {"CONNECTING", "OPEN"}
     \/ k = 2 /\ audioStreamRef # 0 /\ procs'[audioStreamRef].micLive
     \/ k = 3 /\ processorRef # 0 /\ procs'[processorRef].connected
     \/ k = 4 /\ audioCtxRef # 0 /\ procs'[audioCtxRef].ctxOpen}

C10_TeardownUnconditional == [][EndInvoked => Cardinality(Undone) <= 1]_vars

\* C11: no interval of the expression sampler has more than one classification
\* in flight: a tick that finds one in flight starts none.
C11_OneClassificationOutstanding ==
  \A e \in 1..Len(effects) : effects[e].emoBusy <= 1

\* A step in which recognizer r of the mounted view delivers a result event.
ResultOf(r) ==
  /\ r \in 1..Len(recs)
  /\ Len(recs') >= r
  /\ recs'[r].results = recs[r].results + 1
  /\ Mounted(recs[r].inst)

\* The number of tokens of the batch r delivers in this step.
BatchSize(r) == recs'[r].wordCount - recs[r].wordCount

\* C12: a batch of fewer than 3 tokens whose just-computed wpm is below 40
\* leaves wpm and fillers of the record as they are; every other batch writes
\* the computed wpm and the cumulative filler count.
C12_NoiseRejectionPerBatch ==
  [][\A r \in 1..Len(recs) :
       ResultOf(r) =>
         LET wpm == Wpm(recs'[r].wordCount, ElapsedMs(recs[r]))
         IN  IF BatchSize(r) < 3 /\ wpm < 40
             THEN /\ metrics'.wpm = metrics.wpm
                  /\ metrics'.fillers = metrics.fillers
             ELSE /\ metrics'.wpm = wpm
                  /\ metrics'.fillers = recs'[r].fillerCount]_vars

\* Witness of C12: a batch was applied at 40 wpm or more, and a later batch
\* with a filler word was dropped.
C12_Witness ==
  \E r \in 1..Len(recs) :
    /\ Mounted(recs[r].inst)
    /\ recs[r].results = 2
    /\ metrics.wpm >= 40
    /\ recs[r].fillerCount > metrics.fillers

\* C13: while a session of the mounted view is active, no step lowers fillers.
C13_FillersMonotone ==
  [][(view = "training" /\ view' = "training" /\ inst' = inst
        /\ isSessionActive /\ isSessionActive')
       => metrics'.fillers >= metrics.fillers]_vars

\* C14: as many session-log submissions have been issued as sessions have
\* ended: one request per ended session.
C14_SingleSubmission == Submissions = ends

\* The tips in the order of the panel.
TipOrder ==
  << "Straighten your posture", "Maintain eye contact", "Speak louder",
     "Reduce filler words", "Great energy!" >>

TipRank(t) == CHOOSE k \in 1..Len(TipOrder) : TipOrder[k] = t

\* C15: the panel shows the posture tip iff posture < 60, the eye-contact tip
\* iff eyeContact is not Good, the volume tip iff volume < 10, the filler tip
\* iff fillers > 5 and the energy tip iff tone is Energetic, each whatever
\* the others do, and in that order.
C15_LiveTips ==
  LET tips == LiveTips(metrics)
      Shown(t) == \E k \in 1..Len(tips) : tips[k] = t
  IN  /\ \A k \in 1..Len(tips) : \E j \in 1..Len(TipOrder) : TipOrder[j] = tips[k]
      /\ Shown(TipOrder[1]) <=> metrics.posture < 60
      /\ Shown(TipOrder[2]) <=> metrics.eyeContact # "Good"
      /\ Shown(TipOrder[3]) <=> metrics.volume < 10
      /\ Shown(TipOrder[4]) <=> metrics.fillers > 5
      /\ Shown(TipOrder[5]) <=> metrics.tone = "Energetic"
      /\ \A j, k \in 1..Len(tips) : j < k => TipRank(tips[j]) < TipRank(tips[k])

\* Witness of C15: after a pose result, a record for which all five tips apply.
C15_Witness ==
  /\ view = "training"
  /\ metrics.headTilt # 0
  /\ metrics.posture < 60
  /\ metrics.eyeContact # "Good"
  /\ metrics.volume < 10
  /\ metrics.fillers > 5
  /\ metrics.tone = "Energetic"

\* The fields of the record a step changes.
Changed == {f \in DOMAIN metrics : metrics'[f] # metrics[f]}

\* Inferences and classifications in flight.
PoseOutstanding(effs) == Cardinality({e \in 1..Len(effs) : effs[e].poseBusy})

EmotionOutstanding(effs) ==
  Cardinality({p \in (1..Len(effs)) \X (1..MaxBusy) : p[2] <= effs[p[1]].emoBusy})

\* A step in which a pose result, an expression sample, a transcript batch arrives.
PoseStep == PoseOutstanding(effects') < PoseOutstanding(effects)
EmotionStep == EmotionOutstanding(effects') < EmotionOutstanding(effects)
SpeechStep == \E r \in 1..Len(recs) : ResultOf(r)

\* Callbacks of two different producers give the same record in either order.
Commute(m) ==
  \A lm \in PoseSamples, l \in Labels, wpm \in {0, 51}, fc \in {0, 2} :
    /\ PosePatch(EmotionPatch(m, l), lm) = EmotionPatch(PosePatch(m, lm), l)
    /\ PosePatch(SpeechPatch(m, wpm, fc), lm) = SpeechPatch(PosePatch(m, lm), wpm, fc)
    /\ EmotionPatch(SpeechPatch(m, wpm, fc), l) = SpeechPatch(EmotionPatch(m, l), wpm, fc)

\* C16: a pose result changes only posture, headTilt and eyeContact, an
\* expression sample only emotion, a transcript batch only wpm and fillers;
\* and callbacks of different producers commute on every record reached.
C16_ProducersWriteOwnFields ==
  /\ [][/\ PoseStep => Changed \subseteq {"posture", "headTilt", "eyeContact"}
        /\ EmotionStep => Changed \subseteq {"emotion"}
        /\ SpeechStep => Changed \subseteq {"wpm", "fillers"}]_vars
  /\ [](Commute(metrics))

\* Witness of C16: a record that each of the three producers has written.
C16_Witness ==
  /\ view = "training"
  /\ metrics.posture > 0
  /\ metrics.emotion = "Happy"
  /\ metrics.fillers > 0

\* q is wordCount / elapsedMinutes rounded to the nearest integer (halves up),
\* and 0 when no time has elapsed.
IsRoundedRate(q, wordCount, elapsedMs) ==
  IF elapsedMs = 0
  THEN q = 0
  ELSE /\ (2 * q - 1) * elapsedMs <= 2 * 60000 * wordCount
       /\ 2 * 60000 * wordCount < (2 * q + 1) * elapsedMs

\* C17: the wpm a batch writes is round(cumulativeWordCount / elapsedMinutes)
\* for the recognizer's word count after the batch and the time since the
\* start() that created the recognizer, and 0 when that time is 0.  (A batch
\* of 3 or more tokens always writes; a smaller one writes or leaves wpm.)
C17_WpmFormula ==
  [][\A r \in 1..Len(recs) :
       ResultOf(r) =>
         \/ IsRoundedRate(metrics'.wpm, recs'[r].wordCount, ElapsedMs(recs[r]))
         \/ BatchSize(r) < 3 /\ metrics'.wpm = metrics.wpm]_vars

\* Witness of C17: the record holds a wpm that was rounded up from the word
\* count and the elapsed time of the recognizer that wrote it.
C17_Witness ==
  \E r \in 1..Len(recs) :
    /\ Mounted(recs[r].inst)
    /\ recs[r].results > 0
    /\ ElapsedMs(recs[r]) > 0
    /\ IsRoundedRate(metrics.wpm, recs[r].wordCount, ElapsedMs(recs[r]))
    /\ metrics.wpm * ElapsedMs(recs[r]) > 60000 * recs[r].wordCount

\* C18: every audio frame holds one integer per sample of its chunk, in
\* sample order, each the nearest integer to sample * 32767.
C18_PcmRounded ==
  \A w \in 1..Len(socks) : \A k \in 1..Len(socks[w].sent) :
    LET msg == socks[w].sent[k]
        input == procs[msg.proc].inputs[msg.chunk]
    IN  msg.type = "audio" =>
          /\ Len(msg.data) = Len(input)
          /\ \A i \in 1..Len(input) :
               2 * Abs(msg.data[i] * SampleDen - input[i] * Scale) <= SampleDen

\* C19: headTilt is always within [-90, 90]; once the pose callback has written
\* a result, headTilt is the raw shoulder-line angle, minus 180 if it exceeds
\* 90, plus 180 if it is below -90, otherwise unchanged, rounded to the nearest
\* integer degree.
PoseWritten == Len(lastPose) > 0 /\ lastPose[1].inst = inst

LastLandmarks == lastPose[1].lm

C19_HeadTiltNormalized ==
  /\ metrics.headTilt \in -90..90
  /\ PoseWritten =>
       LET a == LastLandmarks.angle10
           folded == IF a > 900 THEN a - 1800 ELSE IF a < -900 THEN a + 1800 ELSE a
       IN  /\ folded \in -900..900
           /\ 2 * Abs(10 * metrics.headTilt - folded) <= 10

C19_Witness ==
  /\ PoseWritten
  /\ LastLandmarks.angle10 < -900
  /\ metrics.headTilt > 0

\* C20: posture is always within [0, 100]; once the pose callback has written a
\* result, posture is clamp(100 - |shoulderTilt| * 4, 0, 100) rounded to the
\* nearest integer, and no landmark pair with at least as much shoulder tilt
\* scores higher.
ClampedScore10(lm) ==
  LET v == 1000 - Abs(lm.Ry - lm.Ly) * 4
  IN  IF v < 0 THEN 0 ELSE IF v > 1000 THEN 1000 ELSE v

C20_PostureClamped ==
  /\ metrics.posture \in 0..100
  /\ PoseWritten =>
       /\ 2 * Abs(10 * metrics.posture - ClampedScore10(LastLandmarks)) <= 10
       /\ \A lm \in PoseInputs :
            Abs(ShoulderTilt(lm)) >= Abs(ShoulderTilt(LastLandmarks))
              => PostureScore(lm) <= metrics.posture

C20_Witness ==
  /\ PoseWritten
  /\ Abs(ShoulderTilt(LastLandmarks)) * 4 > 1000
  /\ metrics.posture = 0

\* C21: stopSpeechRecognition and stopAudioStreaming leave every handle
\* reference cleared; called with the references cleared (never started, or a
\* second time in a row) they call nothing, so nothing can throw, and change
\* nothing; a handle that was never set (no recognizer, microphone not yet
\* granted) leaves its objects untouched at the first call too.
RefsCleared ==
  /\ recognitionRef = 0
  /\ wsRef = 0
  /\ audioStreamRef = 0
  /\ processorRef = 0
  /\ audioCtxRef = 0

StopChangesNothing ==
  /\ StopSpeechRecognition(recs) = recs
  /\ \A fail \in 0..4 : CanFail(fail) => fail = 0
  /\ StopAudioSocks(socks, 0) = socks
  /\ StopAudioProcs(procs, 0) = procs

StopStep == ends' = ends + 1

C21_StopIdempotent ==
  /\ [](RefsCleared => StopChangesNothing)
  /\ [][StopStep =>
         /\ RefsCleared'
         /\ StopChangesNothing'
         /\ recognitionRef = 0 => recs' = recs
         /\ (audioStreamRef = 0 /\ processorRef = 0 /\ audioCtxRef = 0) => procs' = procs]_vars

C21_Witness ==
  /\ ends > 0
  /\ ~isSessionActive
  /\ RefsCleared
  /\ ~speechSupported
  /\ Len(audioCalls) > 0

\* The occurrences, in the batches a recognizer has received, of the tokens of S.
RECURSIVE Tally(_, _)
Tally(heard, S) ==
  IF S = {} THEN 0
  ELSE LET v == CHOOSE x \in S : TRUE IN heard[v] + Tally(heard, S \ {v})

HeardWords(rec) == Tally(rec.heard, Vocabulary)

HeardFillers(rec) == Tally(rec.heard, Vocabulary \cap Fillers)

\* C22: at every batch, discarded or applied, the recognizer's counters become
\* the number of tokens and of filler tokens of all the batches it has
\* received; a batch that is applied writes that filler count, and the wpm of
\* that word count, to the record.
C22_DiscardedBatchesCount ==
  [][\A r \in 1..Len(recs) :
       ResultOf(r) =>
         LET n == HeardWords(recs'[r]) - HeardWords(recs[r])
             wpm == Wpm(HeardWords(recs'[r]), ElapsedMs(recs[r]))
         IN  /\ recs'[r].wordCount = HeardWords(recs'[r])
             /\ recs'[r].fillerCount = HeardFillers(recs'[r])
             /\ ~(n < 3 /\ wpm < 40) =>
                  /\ metrics'.fillers = HeardFillers(recs'[r])
                  /\ metrics'.wpm = wpm]_vars

\* Witness of C22: a one-token batch "um" was discarded (a batch of one token
\* alone is below 40 wpm at every clock reading), and a later batch of three
\* tokens with two more fillers was applied below 40 wpm: the record shows the
\* three fillers and the rate of the four words.
C22_Witness ==
  \E r \in 1..Len(recs) :
    /\ Mounted(recs[r].inst)
    /\ recs[r].results = 2
    /\ HeardWords(recs[r]) = 4
    /\ metrics.fillers = 3
    /\ metrics.wpm > 0
    /\ metrics.wpm < 40

\* C23: in every state of the training view volume, pitch and tone hold their
\* defaults 0, 0 and Neutral, so the panel shows the volume tip and does not
\* show the positive-reinforcement tip.
Shown(m) == {LiveTips(m)[k] : k \in 1..Len(LiveTips(m))}

C23_VoiceFieldsNeverWritten ==
  view = "training" =>
    /\ metrics.volume = 0
    /\ metrics.pitch = 0
    /\ metrics.tone = "Neutral"
    /\ "Speak louder" \in Shown(metrics)
    /\ "Great energy!" \notin Shown(metrics)

\* Witness of C23: the three producers have written, posture and eye contact
\* are good, and the volume tip is the only one shown.
C23_Witness ==
  /\ view = "training"
  /\ metrics.posture >= 60
  /\ metrics.eyeContact = "Good"
  /\ metrics.emotion = "Happy"
  /\ metrics.fillers > 0
  /\ LiveTips(metrics) = << "Speak louder" >>

====
